---- MODULE Spec2Model ----
(***************************************************************************)
(* Model of scw.py: the lifecycle of a single remote GPU instance.         *)
(* One operator runs one command at a time (start, stop, upload,           *)
(* download).  Every external call (the provider CLI `scw`, ssh, scp,      *)
(* ssh-keygen) is one step of the command; its result is chosen by the     *)
(* environment.  The process can be killed between any two steps.          *)
(***************************************************************************)
EXTENDS Integers, Sequences, FiniteSets, TLC

\* ----------------------------------------------------------------- bounds
\* Number of instances the provider hands out in one behaviour.
MaxInst == 2
\* Number of "not yet ready" answers within one polling loop.
MaxPoll == 2
\* Number of distinct public addresses the provider assigns.
MaxAddr == 2

Addresses == 1..MaxAddr

VARIABLES
    pc,           \* position of the running command ("idle": no process)
    cmd,          \* sys.argv[1] of the current / last command
    exit,         \* exit status of the last finished command
    STATE_FILE,   \* the state file: {} when absent, else one {id, ip} record
    entryState,   \* history: STATE_FILE when the command was invoked
    log,          \* history: external calls issued by the current command
    live,         \* provider side: instances created and not deleted
    nextId,       \* provider side: instances created so far
    instance_id,  \* local variable of start / stop
    instance_ip,  \* local variable of start / stop / upload / download
    is_dir,       \* local variable of upload / download
    powerN,       \* provider side: "not running" answers before "running"
    failed,       \* history: calls of the current command that did not succeed
    last_ok,      \* whether the last external call of the command succeeded
    stdout,       \* start: captured output of the setup script
    token         \* local variable of start

vars == <<pc, cmd, exit, STATE_FILE, entryState, log, live, nextId,
          instance_id, instance_ip, is_dir, powerN, failed, last_ok,
          stdout, token>>

\* ------------------------------------------------------------ call names
ProviderCalls == {"create", "get", "iplist", "stop", "delete"}
TransportCalls == {"forget", "ssh_echo", "ssh_mkdir", "scp_to", "scp_to_r",
                   "ssh_setup", "tunnel", "ssh_test", "scp_from", "scp_from_r"}
DestructiveCalls == {"stop", "delete"}

\* subprocess.run of one external command: the call is observed.
run(c) == Append(log, c)

\* The calls of this command that failed so far, after call c gave `ok`.
result(c, ok) == IF ok THEN failed ELSE failed \cup {c}

Count(s, c) == Cardinality({i \in DOMAIN s : s[i] = c})

Range(s) == {s[i] : i \in DOMAIN s}

\* ------------------------------------------------------------ state file
save_state(id, ip) == {[id |-> id, ip |-> ip]}

load_state == STATE_FILE

delete_state == {}

\* The record of a non-empty state file.
TheRecord(f) == CHOOSE r \in f : TRUE

\* scp_to_instance / scp_from_instance: "-r" is added when recursive.
scp_to_instance(recursive) == IF recursive THEN "scp_to_r" ELSE "scp_to"

scp_from_instance(recursive) == IF recursive THEN "scp_from_r" ELSE "scp_from"

\* sys.exit(status), or the return of the command function to main.
Exit(status) ==
    /\ pc' = "idle"
    /\ exit' = status

Init ==
    /\ pc = "idle"
    /\ cmd = "none"
    /\ exit = 0
    /\ STATE_FILE = {}
    /\ entryState = {}
    /\ log = <<>>
    /\ live = {}
    /\ nextId = 0
    /\ instance_id = 0
    /\ instance_ip = 0
    /\ is_dir = FALSE
    /\ powerN = 0
    /\ failed = {}
    /\ last_ok = TRUE
    /\ stdout = <<>>
    /\ token = <<>>

\* ------------------------------------------------------------------ main
\* main() dispatching one of the four commands: a new process starts, with
\* fresh local variables and nothing called yet.
main ==
    /\ pc = "idle"
    /\ \E c \in {"start", "stop", "upload", "download"} :
          /\ c = "start" /\ STATE_FILE = {} => nextId < MaxInst
          /\ cmd' = c
          /\ pc' = c
    /\ exit' = 0
    /\ entryState' = STATE_FILE
    /\ log' = <<>>
    /\ failed' = {}
    /\ last_ok' = TRUE
    /\ stdout' = <<>>
    /\ token' = <<>>
    /\ instance_id' = 0
    /\ instance_ip' = 0
    /\ is_dir' = FALSE
    /\ powerN' = 0
    /\ UNCHANGED <<STATE_FILE, live, nextId>>

\* ----------------------------------------------------------------- start
\* start(): the "already running" check.
start_mut_noguard ==
    /\ pc = "start"
    /\ pc' = "create"
    /\ UNCHANGED <<cmd, exit, STATE_FILE, entryState, log, live, nextId,
                   instance_id, instance_ip, is_dir, powerN, failed>>
    /\ UNCHANGED last_ok
    /\ UNCHANGED <<stdout, token>>

start ==
    /\ pc = "start"
    /\ IF load_state # {}
       THEN Exit(1)
       ELSE pc' = "create" /\ UNCHANGED exit
    /\ UNCHANGED <<cmd, STATE_FILE, entryState, log, live, nextId,
                   instance_id, instance_ip, is_dir, powerN, failed>>
    /\ UNCHANGED last_ok
    /\ UNCHANGED <<stdout, token>>

\* start(): the create call and the check of its return code.
start_create_mut_ignore_rc ==
    /\ pc = "create"
    /\ log' = run("create")
    /\ \E ok \in BOOLEAN :
          /\ IF ok
             THEN /\ instance_id' = nextId + 1
                  /\ nextId' = nextId + 1
                  /\ live' = live \cup {nextId + 1}
             ELSE /\ instance_id' = 0
                  /\ UNCHANGED <<nextId, live>>
          /\ pc' = "wait_for_running"
          /\ \E n \in 0..MaxPoll : powerN' = n
          /\ failed' = result("create", ok)
          /\ last_ok' = (ok)
    /\ UNCHANGED <<cmd, exit, STATE_FILE, entryState, instance_ip, is_dir>>
    /\ UNCHANGED <<stdout, token>>

start_create ==
    /\ pc = "create"
    /\ log' = run("create")
    /\ \E ok \in BOOLEAN :
          /\ failed' = result("create", ok)
          /\ last_ok' = (ok)
          /\ IF ok
             THEN /\ instance_id' = nextId + 1
                  /\ nextId' = nextId + 1
                  /\ live' = live \cup {nextId + 1}
                  /\ \E n \in 0..MaxPoll : powerN' = n
                  /\ pc' = "wait_for_running"
                  /\ UNCHANGED exit
             ELSE /\ Exit(1)
                  /\ UNCHANGED <<instance_id, nextId, live, powerN>>
    /\ UNCHANGED <<cmd, STATE_FILE, entryState, instance_ip, is_dir>>
    /\ UNCHANGED <<stdout, token>>

\* get_instance_state: what the provider answers to the k-th query of a run.
\*   "running"      the power state is "running"
\*   "pending"      any other power state
\*   "nostate"      JSON without a "state" key: data.get gives ""
\*   "unparseable"  stdout is not JSON: json.loads raises
get_instance_state ==
    IF Count(log, "get") < powerN
    THEN {"pending", "nostate", "unparseable"}
    ELSE {"running", "unparseable"}

\* wait_for_running: one iteration of the loop.
wait_for_running_mut_any_state ==
    /\ pc = "wait_for_running"
    /\ log' = run("get")
    /\ \E state \in get_instance_state :
          /\ failed' = result("get", state \in {"running", "pending"})
          /\ last_ok' = (state \in {"running", "pending"})
          /\ IF state \in {"running", "pending"}
             THEN pc' = "wait_for_ip" /\ UNCHANGED exit
             ELSE IF state = "unparseable"
             THEN Exit(1)
             ELSE UNCHANGED <<pc, exit>>
    /\ UNCHANGED <<cmd, STATE_FILE, entryState, live, nextId, instance_id,
                   instance_ip, is_dir, powerN>>
    /\ UNCHANGED <<stdout, token>>

wait_for_running ==
    /\ pc = "wait_for_running"
    /\ log' = run("get")
    /\ \E state \in get_instance_state :
          /\ failed' = result("get", state \in {"running", "pending"})
          /\ last_ok' = (state \in {"running", "pending"})
          /\ IF state = "running"
             THEN pc' = "wait_for_ip" /\ UNCHANGED exit
             ELSE IF state = "unparseable"
             THEN Exit(1)
             ELSE UNCHANGED <<pc, exit>>
    /\ UNCHANGED <<cmd, STATE_FILE, entryState, live, nextId, instance_id,
                   instance_ip, is_dir, powerN>>
    /\ UNCHANGED <<stdout, token>>

\* get_instance_ip(returncode): 0 stands for None (the call failed, or no
\* address of the list is bound to the instance).
get_instance_ip(returncode) ==
    IF returncode # 0 THEN {0} ELSE {0} \cup Addresses

\* wait_for_ip: one iteration of the loop; at most MaxPoll without address.
wait_for_ip_mut_give_up ==
    /\ pc = "wait_for_ip"
    /\ log' = run("iplist")
    /\ \E returncode \in {0, 1} : \E ip \in get_instance_ip(returncode) :
          /\ ip = 0 => Count(log, "iplist") < MaxPoll
          /\ failed' = result("iplist", returncode = 0)
          /\ last_ok' = (returncode = 0)
          /\ IF ip # 0
             THEN instance_ip' = ip /\ pc' = "remove_from_known_hosts"
                  /\ UNCHANGED exit
             ELSE IF Count(log, "iplist") >= 1
             THEN Exit(1) /\ UNCHANGED instance_ip
             ELSE UNCHANGED <<instance_ip, pc, exit>>
    /\ UNCHANGED <<cmd, STATE_FILE, entryState, live, nextId,
                   instance_id, is_dir, powerN>>
    /\ UNCHANGED <<stdout, token>>

wait_for_ip ==
    /\ pc = "wait_for_ip"
    /\ log' = run("iplist")
    /\ \E returncode \in {0, 1} : \E ip \in get_instance_ip(returncode) :
          /\ ip = 0 => Count(log, "iplist") < MaxPoll
          /\ failed' = result("iplist", returncode = 0)
          /\ last_ok' = (returncode = 0)
          /\ IF ip # 0
             THEN instance_ip' = ip /\ pc' = "remove_from_known_hosts"
             ELSE UNCHANGED <<instance_ip, pc>>
    /\ UNCHANGED <<cmd, exit, STATE_FILE, entryState, live, nextId,
                   instance_id, is_dir, powerN>>
    /\ UNCHANGED <<stdout, token>>

\* remove_from_known_hosts: ssh-keygen -R runs when known_hosts exists.
remove_from_known_hosts(known_hosts_exists) ==
    IF known_hosts_exists THEN run("forget") ELSE log

\* start(): remove_from_known_hosts(instance_ip).
start_remove_from_known_hosts ==
    /\ pc = "remove_from_known_hosts"
    /\ \E known_hosts_exists \in BOOLEAN :
          log' = remove_from_known_hosts(known_hosts_exists)
    /\ pc' = "save_state"
    /\ UNCHANGED <<cmd, exit, STATE_FILE, entryState, live, nextId,
                   instance_id, instance_ip, is_dir, powerN, failed>>
    /\ UNCHANGED last_ok
    /\ UNCHANGED <<stdout, token>>

\* start(): save_state(instance_id, instance_ip).
start_save_state_mut_id_only ==
    /\ pc = "save_state"
    /\ STATE_FILE' = save_state(instance_id, 0)
    /\ pc' = "wait_for_ssh"
    /\ UNCHANGED <<cmd, exit, entryState, log, live, nextId, instance_id,
                   instance_ip, is_dir, powerN, failed>>
    /\ UNCHANGED last_ok
    /\ UNCHANGED <<stdout, token>>

start_save_state ==
    /\ pc = "save_state"
    /\ STATE_FILE' = save_state(instance_id, instance_ip)
    /\ pc' = "wait_for_ssh"
    /\ UNCHANGED <<cmd, exit, entryState, log, live, nextId, instance_id,
                   instance_ip, is_dir, powerN, failed>>
    /\ UNCHANGED last_ok
    /\ UNCHANGED <<stdout, token>>

\* wait_for_ssh: one iteration of the loop; at most MaxPoll failures.
wait_for_ssh_mut_no_retry ==
    /\ pc = "wait_for_ssh"
    /\ log' = run("ssh_echo")
    /\ \E returncode \in {0, 255} :
          /\ failed' = result("ssh_echo", returncode = 0)
          /\ last_ok' = (returncode = 0)
          /\ pc' = "upload_work_dir"
    /\ UNCHANGED <<cmd, exit, STATE_FILE, entryState, live, nextId,
                   instance_id, instance_ip, is_dir, powerN>>
    /\ UNCHANGED <<stdout, token>>

wait_for_ssh ==
    /\ pc = "wait_for_ssh"
    /\ log' = run("ssh_echo")
    /\ \E returncode \in {0, 255} :
          /\ returncode # 0 => Count(log, "ssh_echo") < MaxPoll
          /\ failed' = result("ssh_echo", returncode = 0)
          /\ last_ok' = (returncode = 0)
          /\ pc' = IF returncode = 0 THEN "upload_work_dir" ELSE pc
    /\ UNCHANGED <<cmd, exit, STATE_FILE, entryState, live, nextId,
                   instance_id, instance_ip, is_dir, powerN>>
    /\ UNCHANGED <<stdout, token>>

\* upload_work_dir: skipped when ./work is missing, else the remote mkdir.
upload_work_dir ==
    /\ pc = "upload_work_dir"
    /\ \E exists \in BOOLEAN, returncode \in {0, 1} :
          IF exists
          THEN /\ log' = run("ssh_mkdir")
               /\ failed' = result("ssh_mkdir", returncode = 0)
               /\ last_ok' = (returncode = 0)
               /\ pc' = "upload_work_dir_scp"
          ELSE /\ pc' = "setup"
               /\ UNCHANGED <<log, failed, last_ok>>
    /\ UNCHANGED <<cmd, exit, STATE_FILE, entryState, live, nextId,
                   instance_id, instance_ip, is_dir, powerN>>
    /\ UNCHANGED <<stdout, token>>

\* upload_work_dir: the recursive copy; its return code only picks a message.
upload_work_dir_scp_mut_fatal ==
    /\ pc = "upload_work_dir_scp"
    /\ log' = run(scp_to_instance(TRUE))
    /\ \E returncode \in {0, 1} :
          /\ failed' = result(scp_to_instance(TRUE), returncode = 0)
          /\ last_ok' = (returncode = 0)
          /\ IF returncode # 0
             THEN Exit(1)
             ELSE pc' = "setup" /\ UNCHANGED exit
    /\ UNCHANGED <<cmd, STATE_FILE, entryState, live, nextId,
                   instance_id, instance_ip, is_dir, powerN>>
    /\ UNCHANGED <<stdout, token>>

upload_work_dir_scp ==
    /\ pc = "upload_work_dir_scp"
    /\ log' = run(scp_to_instance(TRUE))
    /\ \E returncode \in {0, 1} :
          /\ failed' = result(scp_to_instance(TRUE), returncode = 0)
          /\ last_ok' = (returncode = 0)
    /\ pc' = "setup"
    /\ UNCHANGED <<cmd, exit, STATE_FILE, entryState, live, nextId,
                   instance_id, instance_ip, is_dir, powerN>>
    /\ UNCHANGED <<stdout, token>>

\* ----------------------------------------------------------------- token
\* Strings are sequences of one-character strings.
\* The character class [a-zA-Z0-9_-] of the token pattern.
TokenChars ==
    {"a", "b", "c", "d", "e", "f", "g", "h", "i", "j", "k", "l", "m",
     "n", "o", "p", "q", "r", "s", "t", "u", "v", "w", "x", "y", "z",
     "A", "B", "C", "D", "E", "F", "G", "H", "I", "J", "K", "L", "M",
     "N", "O", "P", "Q", "R", "S", "T", "U", "V", "W", "X", "Y", "Z",
     "0", "1", "2", "3", "4", "5", "6", "7", "8", "9", "_", "-"}

\* The literal part of the pattern, "token=".
TokenPrefix == <<"t", "o", "k", "e", "n", "=">>

\* The pattern token=([a-zA-Z0-9_-]+) matches at position i of s.
MatchAt(s, i) ==
    /\ i + Len(TokenPrefix) <= Len(s)
    /\ SubSeq(s, i, i + Len(TokenPrefix) - 1) = TokenPrefix
    /\ s[i + Len(TokenPrefix)] \in TokenChars

\* re.search: the leftmost position from i on where the pattern matches
\* (0 when there is none).
RECURSIVE re_search(_, _)
re_search(s, i) ==
    IF i > Len(s) THEN 0
    ELSE IF MatchAt(s, i) THEN i
    ELSE re_search(s, i + 1)

\* The greedy group ([a-zA-Z0-9_-]+) read from position j of s.
RECURSIVE group(_, _)
group(s, j) ==
    IF j <= Len(s) /\ s[j] \in TokenChars
    THEN <<s[j]>> \o group(s, j + 1)
    ELSE <<>>

extract_jupyter_token_mut_lazy(log_output) ==
    IF re_search(log_output, 1) # 0
    THEN <<log_output[re_search(log_output, 1) + Len(TokenPrefix)]>>
    ELSE <<>>

extract_jupyter_token(log_output) ==
    IF re_search(log_output, 1) # 0
    THEN group(log_output, re_search(log_output, 1) + Len(TokenPrefix))
    ELSE <<>>

\* Captured outputs of the setup script: pieces of text put together.
\* Number of pieces in one output.
MaxChunks == 4

ExampleToken == <<"a", "b", "c", "1", "2", "3", "X", "Y", "Z", "_", "-">>

Chunks == {TokenPrefix, ExampleToken, <<".">>, <<"t", "o", "k">>, <<"=">>,
           <<"x">>}

RECURSIVE Concat(_)
Concat(ss) == IF ss = <<>> THEN <<>> ELSE Head(ss) \o Concat(Tail(ss))

Outputs == {Concat(ss) : ss \in UNION {[1..n -> Chunks] : n \in 0..MaxChunks}}

\* The outputs the full lifecycle model draws from: without and with a token.
SampleOutputs == {<<".">>, <<".">> \o TokenPrefix \o ExampleToken \o <<".">>}

\* start(): the bootstrap script and the check of its return code.
start_setup_mut_continue ==
    /\ pc = "setup"
    /\ log' = run("ssh_setup")
    /\ \E returncode \in {0, 1} :
          /\ failed' = result("ssh_setup", returncode = 0)
          /\ last_ok' = (returncode = 0)
    /\ \E out \in SampleOutputs :
          /\ stdout' = out
          /\ token' = extract_jupyter_token(out)
    /\ pc' = "tunnel"
    /\ UNCHANGED <<cmd, exit, STATE_FILE, entryState, live, nextId,
                   instance_id, instance_ip, is_dir, powerN>>

\* start(): the bootstrap script, the check of its return code and the
\* extraction of the token, for a script that prints one of `outputs`.
run_setup(outputs) ==
    /\ pc = "setup"
    /\ log' = run("ssh_setup")
    /\ \E returncode \in {0, 1} :
          /\ failed' = result("ssh_setup", returncode = 0)
          /\ last_ok' = (returncode = 0)
          /\ IF returncode # 0
             THEN /\ Exit(1)
                  /\ UNCHANGED <<stdout, token>>
             ELSE /\ pc' = "tunnel"
                  /\ UNCHANGED exit
                  /\ \E out \in outputs :
                        /\ stdout' = out
                        /\ token' = extract_jupyter_token(out)
    /\ UNCHANGED <<cmd, STATE_FILE, entryState, live, nextId,
                   instance_id, instance_ip, is_dir, powerN>>

start_setup == run_setup(SampleOutputs)

\* The same step of start, for every output of the bounded set.
start_setup_outputs == run_setup(Outputs)

\* start_ssh_tunnel: the blocking ssh -N -L is launched.
start_ssh_tunnel ==
    /\ pc = "tunnel"
    /\ log' = run("tunnel")
    /\ pc' = "in_tunnel"
    /\ UNCHANGED <<cmd, exit, STATE_FILE, entryState, live, nextId,
                   instance_id, instance_ip, is_dir, powerN, failed>>
    /\ UNCHANGED last_ok
    /\ UNCHANGED <<stdout, token>>

\* start_ssh_tunnel: ssh ends or KeyboardInterrupt is caught; start returns.
tunnel_closed_mut_cleanup ==
    /\ pc = "in_tunnel"
    /\ STATE_FILE' = delete_state
    /\ Exit(0)
    /\ UNCHANGED <<cmd, entryState, log, live, nextId,
                   instance_id, instance_ip, is_dir, powerN, failed>>
    /\ UNCHANGED last_ok
    /\ UNCHANGED <<stdout, token>>

tunnel_closed ==
    /\ pc = "in_tunnel"
    /\ Exit(0)
    /\ UNCHANGED <<cmd, STATE_FILE, entryState, log, live, nextId,
                   instance_id, instance_ip, is_dir, powerN, failed>>
    /\ UNCHANGED last_ok
    /\ UNCHANGED <<stdout, token>>

\* ------------------------------------------------------------------ stop
\* stop(): load_state and the "nothing to stop" exit.
stop_mut_skip_download ==
    /\ pc = "stop"
    /\ IF load_state = {}
       THEN /\ Exit(0)
            /\ UNCHANGED <<instance_id, instance_ip>>
       ELSE /\ instance_id' = TheRecord(load_state).id
            /\ instance_ip' = TheRecord(load_state).ip
            /\ pc' = "stop_remove_from_known_hosts"
            /\ UNCHANGED exit
    /\ UNCHANGED <<cmd, STATE_FILE, entryState, log, live, nextId, is_dir,
                   powerN, failed>>
    /\ UNCHANGED last_ok
    /\ UNCHANGED <<stdout, token>>

stop_mut_no_guard ==
    /\ pc = "stop"
    /\ IF load_state = {}
       THEN /\ pc' = "stop_instance"
            /\ UNCHANGED <<instance_id, instance_ip, exit>>
       ELSE /\ instance_id' = TheRecord(load_state).id
            /\ instance_ip' = TheRecord(load_state).ip
            /\ pc' = IF TheRecord(load_state).ip # 0
                     THEN "download_work_dir"
                     ELSE "stop_remove_from_known_hosts"
            /\ UNCHANGED exit
    /\ UNCHANGED <<cmd, STATE_FILE, entryState, log, live, nextId, is_dir,
                   powerN, failed>>
    /\ UNCHANGED last_ok
    /\ UNCHANGED <<stdout, token>>

stop ==
    /\ pc = "stop"
    /\ IF load_state = {}
       THEN /\ Exit(0)
            /\ UNCHANGED <<instance_id, instance_ip>>
       ELSE /\ instance_id' = TheRecord(load_state).id
            /\ instance_ip' = TheRecord(load_state).ip
            /\ pc' = IF TheRecord(load_state).ip # 0
                     THEN "download_work_dir"
                     ELSE "stop_remove_from_known_hosts"
            /\ UNCHANGED exit
    /\ UNCHANGED <<cmd, STATE_FILE, entryState, log, live, nextId, is_dir,
                   powerN, failed>>
    /\ UNCHANGED last_ok
    /\ UNCHANGED <<stdout, token>>

\* download_work_dir: the remote "test -d" check; no copy when it fails.
download_work_dir ==
    /\ pc = "download_work_dir"
    /\ log' = run("ssh_test")
    /\ \E exists \in BOOLEAN :
          /\ failed' = result("ssh_test", exists)
          /\ last_ok' = (exists)
          /\ pc' = IF exists THEN "download_work_dir_scp"
                   ELSE "stop_remove_from_known_hosts"
    /\ UNCHANGED <<cmd, exit, STATE_FILE, entryState, live, nextId,
                   instance_id, instance_ip, is_dir, powerN>>
    /\ UNCHANGED <<stdout, token>>

\* download_work_dir: the recursive copy; its return code only picks a message.
download_work_dir_scp ==
    /\ pc = "download_work_dir_scp"
    /\ log' = run(scp_from_instance(TRUE))
    /\ \E returncode \in {0, 1} :
          /\ failed' = result(scp_from_instance(TRUE), returncode = 0)
          /\ last_ok' = (returncode = 0)
    /\ pc' = "stop_remove_from_known_hosts"
    /\ UNCHANGED <<cmd, exit, STATE_FILE, entryState, live, nextId,
                   instance_id, instance_ip, is_dir, powerN>>
    /\ UNCHANGED <<stdout, token>>

\* stop(): remove_from_known_hosts(instance_ip) when the address is known.
stop_remove_from_known_hosts ==
    /\ pc = "stop_remove_from_known_hosts"
    /\ \E known_hosts_exists \in BOOLEAN :
          log' = IF instance_ip # 0
                 THEN remove_from_known_hosts(known_hosts_exists)
                 ELSE log
    /\ pc' = "stop_instance"
    /\ UNCHANGED <<cmd, exit, STATE_FILE, entryState, live, nextId,
                   instance_id, instance_ip, is_dir, powerN, failed>>
    /\ UNCHANGED last_ok
    /\ UNCHANGED <<stdout, token>>

\* stop(): the provider stop call; a failure is only a warning.
stop_instance_mut_skip_delete ==
    /\ pc = "stop_instance"
    /\ log' = run("stop")
    /\ \E returncode \in {0, 1} :
          /\ failed' = result("stop", returncode = 0)
          /\ last_ok' = (returncode = 0)
          /\ pc' = IF returncode = 0 THEN "delete_instance" ELSE "delete_state"
    /\ UNCHANGED <<cmd, exit, STATE_FILE, entryState, live, nextId,
                   instance_id, instance_ip, is_dir, powerN>>
    /\ UNCHANGED <<stdout, token>>

stop_instance ==
    /\ pc = "stop_instance"
    /\ log' = run("stop")
    /\ \E returncode \in {0, 1} :
          /\ failed' = result("stop", returncode = 0)
          /\ last_ok' = (returncode = 0)
    /\ pc' = "delete_instance"
    /\ UNCHANGED <<cmd, exit, STATE_FILE, entryState, live, nextId,
                   instance_id, instance_ip, is_dir, powerN>>
    /\ UNCHANGED <<stdout, token>>

\* stop(): the provider delete call; a failure is only a warning.
delete_instance_mut_fatal ==
    /\ pc = "delete_instance"
    /\ log' = run("delete")
    /\ \E returncode \in {0, 1} :
          /\ failed' = result("delete", returncode = 0)
          /\ last_ok' = (returncode = 0)
          /\ IF returncode = 0
             THEN /\ live' = live \ {instance_id}
                  /\ pc' = "delete_state"
                  /\ UNCHANGED exit
             ELSE /\ Exit(1)
                  /\ UNCHANGED live
    /\ UNCHANGED <<cmd, STATE_FILE, entryState, nextId,
                   instance_id, instance_ip, is_dir, powerN>>
    /\ UNCHANGED <<stdout, token>>

delete_instance ==
    /\ pc = "delete_instance"
    /\ log' = run("delete")
    /\ \E returncode \in {0, 1} :
          /\ failed' = result("delete", returncode = 0)
          /\ last_ok' = (returncode = 0)
          /\ live' = IF returncode = 0 THEN live \ {instance_id} ELSE live
    /\ pc' = "delete_state"
    /\ UNCHANGED <<cmd, exit, STATE_FILE, entryState, nextId,
                   instance_id, instance_ip, is_dir, powerN>>
    /\ UNCHANGED <<stdout, token>>

\* stop(): delete_state() and the return to main.
stop_delete_state ==
    /\ pc = "delete_state"
    /\ STATE_FILE' = delete_state
    /\ Exit(0)
    /\ UNCHANGED <<cmd, entryState, log, live, nextId, instance_id,
                   instance_ip, is_dir, powerN, failed>>
    /\ UNCHANGED last_ok
    /\ UNCHANGED <<stdout, token>>

\* ---------------------------------------------------------------- upload
\* upload(filename): the record check and the local existence check.
upload ==
    /\ pc = "upload"
    /\ IF load_state = {}
       THEN Exit(1) /\ UNCHANGED instance_ip
       ELSE /\ instance_ip' = TheRecord(load_state).ip
            /\ \E exists \in BOOLEAN :
                  IF exists
                  THEN pc' = "upload_mkdir" /\ UNCHANGED exit
                  ELSE Exit(1)
    /\ UNCHANGED <<cmd, STATE_FILE, entryState, log, live, nextId,
                   instance_id, is_dir, powerN, failed>>
    /\ UNCHANGED last_ok
    /\ UNCHANGED <<stdout, token>>

\* upload(filename): the remote mkdir, then local_path.is_dir().
upload_mkdir ==
    /\ pc = "upload_mkdir"
    /\ log' = run("ssh_mkdir")
    /\ \E returncode \in {0, 1} :
          /\ failed' = result("ssh_mkdir", returncode = 0)
          /\ last_ok' = (returncode = 0)
    /\ \E d \in BOOLEAN : is_dir' = d
    /\ pc' = "upload_scp"
    /\ UNCHANGED <<cmd, exit, STATE_FILE, entryState, live, nextId,
                   instance_id, instance_ip, powerN>>
    /\ UNCHANGED <<stdout, token>>

\* upload(filename): the copy; a non-zero return code is fatal.
upload_scp_mut_always_recursive ==
    /\ pc = "upload_scp"
    /\ log' = run(scp_to_instance(TRUE))
    /\ \E returncode \in {0, 1} :
          /\ failed' = result(scp_to_instance(TRUE), returncode = 0)
          /\ last_ok' = (returncode = 0)
          /\ Exit(IF returncode # 0 THEN 1 ELSE 0)
    /\ UNCHANGED <<cmd, STATE_FILE, entryState, live, nextId,
                   instance_id, instance_ip, is_dir, powerN>>
    /\ UNCHANGED <<stdout, token>>

upload_scp ==
    /\ pc = "upload_scp"
    /\ log' = run(scp_to_instance(is_dir))
    /\ \E returncode \in {0, 1} :
          /\ failed' = result(scp_to_instance(is_dir), returncode = 0)
          /\ last_ok' = (returncode = 0)
          /\ Exit(IF returncode # 0 THEN 1 ELSE 0)
    /\ UNCHANGED <<cmd, STATE_FILE, entryState, live, nextId,
                   instance_id, instance_ip, is_dir, powerN>>
    /\ UNCHANGED <<stdout, token>>

\* -------------------------------------------------------------- download
\* download(filename): the record check.
download_mut_noguard ==
    /\ pc = "download"
    /\ instance_ip' = IF load_state = {} THEN 0 ELSE TheRecord(load_state).ip
    /\ pc' = "download_test"
    /\ UNCHANGED <<cmd, exit, STATE_FILE, entryState, log, live, nextId,
                   instance_id, is_dir, powerN, failed>>
    /\ UNCHANGED last_ok
    /\ UNCHANGED <<stdout, token>>

download ==
    /\ pc = "download"
    /\ IF load_state = {}
       THEN Exit(1) /\ UNCHANGED instance_ip
       ELSE /\ instance_ip' = TheRecord(load_state).ip
            /\ pc' = "download_test"
            /\ UNCHANGED exit
    /\ UNCHANGED <<cmd, STATE_FILE, entryState, log, live, nextId,
                   instance_id, is_dir, powerN, failed>>
    /\ UNCHANGED last_ok
    /\ UNCHANGED <<stdout, token>>

\* download(filename): the remote "test -d" that decides is_dir.
download_test ==
    /\ pc = "download_test"
    /\ log' = run("ssh_test")
    /\ \E d \in BOOLEAN : is_dir' = d
    /\ pc' = "download_scp"
    /\ UNCHANGED <<cmd, exit, STATE_FILE, entryState, live, nextId,
                   instance_id, instance_ip, powerN, failed>>
    /\ UNCHANGED last_ok
    /\ UNCHANGED <<stdout, token>>

\* download(filename): the copy; a non-zero return code is fatal.
download_scp ==
    /\ pc = "download_scp"
    /\ log' = run(scp_from_instance(is_dir))
    /\ \E returncode \in {0, 1} :
          /\ failed' = result(scp_from_instance(is_dir), returncode = 0)
          /\ last_ok' = (returncode = 0)
          /\ Exit(IF returncode # 0 THEN 1 ELSE 0)
    /\ UNCHANGED <<cmd, STATE_FILE, entryState, live, nextId,
                   instance_id, instance_ip, is_dir, powerN>>
    /\ UNCHANGED <<stdout, token>>

\* ------------------------------------------------------------- interrupt
\* The operator kills the process (Ctrl+C outside the tunnel's handler, or
\* a kill): Python ends with the status of SIGINT and runs no cleanup.
KeyboardInterrupt ==
    /\ pc # "idle"
    /\ Exit(130)
    /\ UNCHANGED <<cmd, STATE_FILE, entryState, log, live, nextId,
                   instance_id, instance_ip, is_dir, powerN, failed>>
    /\ UNCHANGED <<last_ok, stdout, token>>


\* ---------------------------------------------------------------- claims
\* The record the state file holds is the one start saved for its instance.
RecordOfRun == STATE_FILE = save_state(instance_id, instance_ip)

\* A start run whose create call has returned an identifier.
Created == cmd = "start" /\ "create" \in Range(log) /\ "create" \notin failed

\* C1: the idempotency guard. A start invoked while a record exists issues
\* no provider and no transport call, leaves the record as it found it, and
\* terminates with a non-zero exit status.
C1_IdempotencyGuard ==
    (cmd = "start" /\ entryState # {}) =>
        /\ log = <<>>
        /\ STATE_FILE = entryState
        /\ pc \in {"start", "idle"}
        /\ pc = "idle" => exit # 0

C1_Witness ==
    /\ cmd = "start"
    /\ entryState # {}
    /\ pc = "idle"
    /\ exit = 1
    /\ live # {}

\* C2: in a start run, once create has succeeded and a further step has
\* begun (a further external call was issued), the state file holds a
\* record with the identifier create returned.
C2_RecordRightAfterCreate ==
    (Created /\ Len(log) > 1) =>
        /\ STATE_FILE # {}
        /\ TheRecord(STATE_FILE).id = instance_id

\* C3: a start run interrupted after its create call succeeded (during the
\* power-state poll or any later step) leaves a record for that instance, so
\* that the next start is refused by the guard and creates no second one.
C3_InterruptedRunLeavesRecord ==
    (Created /\ "get" \in Range(log) /\ pc = "idle" /\ exit = 130) =>
        /\ STATE_FILE # {}
        /\ TheRecord(STATE_FILE).id = instance_id

\* C4: a record exists if and only if an instance created by this program
\* is still live or provisioning (created and not successfully deleted).
C4_RecordIffOwnedInstance ==
    (STATE_FILE # {}) <=> (live # {})

\* C5: teardown completeness. A stop invoked with a record present that
\* runs to its end leaves no record, whatever the download, the provider
\* stop call and the provider delete call returned.
C5_TeardownCompleteness ==
    (cmd = "stop" /\ entryState # {} /\ pc = "idle" /\ exit # 130) =>
        /\ STATE_FILE = {}
        /\ exit = 0

C5_Witness ==
    /\ cmd = "stop"
    /\ entryState # {}
    /\ pc = "idle"
    /\ exit = 0
    /\ STATE_FILE = {}
    /\ {"scp_from_r", "stop", "delete"} \subseteq failed
    /\ TheRecord(entryState).id \in live

\* The transport calls of the bulk download (download_work_dir).
DownloadCalls == {"ssh_test", "scp_from", "scp_from_r"}

\* C6: download-before-destroy. In a stop run whose record holds an address,
\* when a provider stop or delete call is issued the bulk download has been
\* attempted on the transport: its directory check was issued, and its
\* recursive copy too unless the check found no remote directory; whatever
\* the download returned, no download call follows a destructive call.
C6_DownloadBeforeDestroy ==
    /\ \A i, j \in DOMAIN log :
          (log[i] \in DestructiveCalls /\ log[j] \in DownloadCalls) => j < i
    /\ (/\ cmd = "stop"
        /\ entryState # {}
        /\ TheRecord(entryState).ip # 0
        /\ Range(log) \cap DestructiveCalls # {}) =>
          /\ log[1] = "ssh_test"
          /\ "ssh_test" \notin failed => log[2] = "scp_from_r"

C6_Witness ==
    /\ cmd = "stop"
    /\ "scp_from_r" \in failed
    /\ Len(log) >= 4
    /\ log[1] = "ssh_test"
    /\ log[2] = "scp_from_r"
    /\ log[Len(log)] = "delete"

\* C7: teardown with no prior state. A stop invoked with no record issues
\* no provider and no transport call, exits with status 0 and leaves the
\* record absent.
C7_StopWithoutRecord ==
    (cmd = "stop" /\ entryState = {}) =>
        /\ log = <<>>
        /\ STATE_FILE = {}
        /\ pc \in {"stop", "idle"}
        /\ (pc = "idle" /\ exit # 130) => exit = 0

C7_Witness ==
    /\ cmd = "stop"
    /\ entryState = {}
    /\ pc = "idle"
    /\ exit = 0

\* C8: a failed create is fatal and leaves no state. start exits non-zero,
\* no record is persisted and create is the only call the run has issued.
C8_CreateFailureFatal ==
    (cmd = "start" /\ "create" \in failed) =>
        /\ pc = "idle"
        /\ exit # 0
        /\ STATE_FILE = {}
        /\ log = <<"create">>

C8_Witness ==
    /\ cmd = "start"
    /\ "create" \in failed
    /\ pc = "idle"
    /\ exit = 1

\* C9: a failed bootstrap is fatal without rollback. start exits non-zero,
\* the tunnel is never opened, no provider stop or delete call is issued,
\* and the record written before (identifier and address) stays in place.
C9_BootstrapFailureFatal ==
    (cmd = "start" /\ "ssh_setup" \in failed) =>
        /\ pc = "idle"
        /\ exit # 0
        /\ log[Len(log)] = "ssh_setup"
        /\ "tunnel" \notin Range(log)
        /\ Range(log) \cap DestructiveCalls = {}
        /\ RecordOfRun
        /\ instance_id \in live

C9_Witness ==
    /\ cmd = "start"
    /\ "ssh_setup" \in failed
    /\ pc = "idle"
    /\ exit = 1
    /\ RecordOfRun

\* C10: polling count. When the provider reports a power state other than
\* "running" to the first powerN queries and "running" to the next, the
\* power-state poll issues exactly powerN + 1 queries and the run then goes
\* on to the address poll: no query more, and none after an address query.
C10_PollingCount ==
    cmd = "start" =>
        /\ pc = "wait_for_running" => Count(log, "get") <= powerN
        /\ "iplist" \in Range(log) \/ pc = "wait_for_ip" =>
              /\ Count(log, "get") = powerN + 1
              /\ \A i \in 1..(powerN + 2) : log[i] = "get" <=> i > 1
              /\ Len(log) > powerN + 2 => log[powerN + 3] = "iplist"

C10_Witness ==
    /\ cmd = "start"
    /\ pc = "wait_for_ip"
    /\ powerN = MaxPoll
    /\ Count(log, "get") = MaxPoll + 1
    /\ failed = {}

\* The command was ended from outside (Ctrl+C or a kill).
Killed == pc = "idle" /\ exit = 130

\* The last external call of the command is c.
LastCall(c) == log # <<>> /\ log[Len(log)] = c

\* C11: in each of the three polling loops of start, an error of the
\* underlying call is treated like "not yet ready": unless the process is
\* killed, start stays in that loop to poll again and is never ended by it.
C11_PollErrorRetries ==
    (cmd = "start" /\ ~last_ok /\ ~Killed) =>
        /\ LastCall("get") => pc = "wait_for_running"
        /\ LastCall("iplist") => pc = "wait_for_ip"
        /\ LastCall("ssh_echo") => pc = "wait_for_ssh"

\* C12: the bulk upload of start is best-effort. Whether ./work is missing,
\* the remote mkdir fails or the recursive copy exits non-zero, the upload
\* step leaves the record as saved and start goes on to the setup script,
\* which it executes once; unless killed, start never ends on an upload call
\* or on the shell check before it.
C12_UploadBestEffort ==
    cmd = "start" =>
        /\ Count(log, "ssh_setup") <= 1
        /\ pc \in {"upload_work_dir", "upload_work_dir_scp", "setup"} =>
              /\ RecordOfRun
              /\ "ssh_setup" \notin Range(log)
        /\ (LastCall("ssh_echo") /\ last_ok) \/ LastCall("ssh_mkdir")
              \/ LastCall("scp_to_r") =>
                 \/ pc \in {"upload_work_dir", "upload_work_dir_scp", "setup"}
                 \/ Killed
        /\ \A i \in DOMAIN log : log[i] = "ssh_setup" =>
              \/ log[i-1] = "ssh_echo"
              \/ log[i-1] = "scp_to_r" /\ log[i-2] = "ssh_mkdir"

C12_Witness ==
    /\ cmd = "start"
    /\ {"ssh_mkdir", "scp_to_r"} \subseteq failed
    /\ LastCall("ssh_setup")
    /\ last_ok
    /\ pc = "tunnel"
    /\ RecordOfRun

\* C13: end to end. A start run that reaches the tunnel began with no record
\* and ends with the record equal to {identifier returned by create, address
\* returned by the address poll}, after exactly one create call and exactly
\* one execution of the setup script, however many not-ready answers the
\* three polls got.
C13_EndToEnd ==
    (cmd = "start" /\ "tunnel" \in Range(log)) =>
        /\ entryState = {}
        /\ instance_id = nextId
        /\ instance_ip \in Addresses
        /\ STATE_FILE = {[id |-> nextId, ip |-> instance_ip]}
        /\ Count(log, "create") = 1
        /\ Count(log, "ssh_setup") = 1
        /\ {"create", "ssh_setup"} \cap failed = {}

C13_Witness ==
    /\ cmd = "start"
    /\ pc = "in_tunnel"
    /\ Count(log, "get") = MaxPoll + 1
    /\ Count(log, "iplist") = MaxPoll + 1
    /\ Count(log, "ssh_echo") = MaxPoll + 1
    /\ STATE_FILE = {[id |-> nextId, ip |-> instance_ip]}

\* C14: single-path upload and download invoked with no record end with a
\* non-zero exit status and have no side effect: no transport call, no
\* provider call, and the record stays absent.
C14_TransferWithoutRecord ==
    (cmd \in {"upload", "download"} /\ entryState = {}) =>
        /\ log = <<>>
        /\ STATE_FILE = {}
        /\ pc \in {cmd, "idle"}
        /\ pc = "idle" => exit # 0

C14_Witness ==
    /\ cmd = "upload"
    /\ entryState = {}
    /\ pc = "idle"
    /\ exit = 1
    /\ live # {}

\* The copy calls of the single-path commands.
CopyCalls == {"scp_to", "scp_to_r", "scp_from", "scp_from_r"}

\* C15: directory detection. Single-path upload issues a recursive copy if
\* the local path is a directory and a plain copy if not; single-path
\* download does the same on the answer of the remote directory test; a copy
\* that exits non-zero makes the command exit non-zero, and the command
\* exits 0 only after a copy that succeeded.
C15_DirectoryDetection ==
    (cmd \in {"upload", "download"} /\ Range(log) \cap CopyCalls # {}) =>
        /\ cmd = "upload" =>
              Range(log) \cap CopyCalls = {IF is_dir THEN "scp_to_r" ELSE "scp_to"}
        /\ cmd = "download" =>
              Range(log) \cap CopyCalls =
                  {IF is_dir THEN "scp_from_r" ELSE "scp_from"}
        /\ log[Len(log)] \in CopyCalls
        /\ pc = "idle"
        /\ exit = 0 <=> last_ok

C15_Witness ==
    /\ cmd = "download"
    /\ is_dir
    /\ log = <<"ssh_test", "scp_from_r">>
    /\ ~last_ok
    /\ exit = 1

\* C16: interrupting the tunnel leaves the instance running. Once the tunnel
\* was opened, start ends without a provider stop or delete call and with
\* the record as saved; the instance is still there for a later stop.
C16_TunnelInterruptLeavesInstance ==
    (cmd = "start" /\ "tunnel" \in Range(log)) =>
        /\ LastCall("tunnel")
        /\ Range(log) \cap DestructiveCalls = {}
        /\ RecordOfRun
        /\ instance_id \in live
        /\ pc \in {"in_tunnel", "idle"}
        /\ pc = "idle" => exit \in {0, 130}

C16_Witness ==
    /\ cmd = "start"
    /\ LastCall("tunnel")
    /\ pc = "idle"
    /\ exit = 0
    /\ RecordOfRun
    /\ instance_id \in live

\* Text t stands in s at position i.
Occurs(s, i, t) ==
    /\ i >= 1
    /\ i + Len(t) - 1 <= Len(s)
    /\ SubSeq(s, i, i + Len(t) - 1) = t

\* The positions of s where "token=" stands, followed by a token character.
TokenStarts(s) ==
    {i \in 1..Len(s) :
        /\ Occurs(s, i, TokenPrefix)
        /\ i + Len(TokenPrefix) <= Len(s)
        /\ s[i + Len(TokenPrefix)] \in TokenChars}

Min(S) == CHOOSE i \in S : \A j \in S : i <= j

\* The output of the spec's example: "...token=abc123XYZ_-...".
ExampleOutput == <<".">> \o TokenPrefix \o ExampleToken \o <<".">>

\* C17: token extraction. After the setup script succeeded, the token is the
\* maximal run of characters of [a-zA-Z0-9_-] that follows the first
\* "token=" followed by at least one such character ("abc123XYZ_-" for the
\* example output); it is empty when the output holds no "token=" (and when
\* none is followed by such a character); whatever the token, start goes on
\* to the tunnel and does not fail.
C17_TokenExtraction ==
    ("ssh_setup" \in Range(log) /\ "ssh_setup" \notin failed) =>
        /\ (\A i \in 1..Len(stdout) : ~Occurs(stdout, i, TokenPrefix)) =>
              token = <<>>
        /\ TokenStarts(stdout) = {} => token = <<>>
        /\ TokenStarts(stdout) # {} =>
              /\ token # <<>>
              /\ \A k \in DOMAIN token : token[k] \in TokenChars
              /\ Occurs(stdout, Min(TokenStarts(stdout)) + Len(TokenPrefix),
                        token)
              /\ \A c \in TokenChars :
                    ~Occurs(stdout,
                            Min(TokenStarts(stdout)) + Len(TokenPrefix),
                            token \o <<c>>)
        /\ stdout = ExampleOutput => token = ExampleToken
        /\ \/ pc \in {"tunnel", "in_tunnel"}
           \/ pc = "idle" /\ exit = 0 /\ LastCall("tunnel")

C17_Witness ==
    /\ stdout = ExampleOutput
    /\ token = ExampleToken
    /\ pc = "in_tunnel"

\* The place of each external call in the provisioning sequence of start
\* (0: not a call of start).
Phase(c) ==
    CASE c = "create" -> 1
      [] c = "get" -> 2
      [] c = "iplist" -> 3
      [] c = "forget" -> 4
      [] c = "ssh_echo" -> 5
      [] c = "ssh_mkdir" -> 6
      [] c = "scp_to_r" -> 7
      [] c = "ssh_setup" -> 8
      [] c = "tunnel" -> 9
      [] OTHER -> 0

\* The calls start repeats: the three polls.
PollCalls == {"get", "iplist", "ssh_echo"}

\* C18: provisioning step order. The external calls of a start run occur in
\* the order create, power-state queries (until "running"), address queries
\* (until an address is found), host-identity invalidation, shell checks
\* (until one succeeds), bulk upload (mkdir, then copy), setup script,
\* tunnel; only the polls repeat, no step is taken before the one it depends
\* on, the invalidation comes before the first shell check, and the upload
\* and the setup script begin only after a shell check that succeeded.
C18_ProvisioningOrder ==
    cmd = "start" =>
        /\ \A i \in DOMAIN log : Phase(log[i]) > 0
        /\ log # <<>> => log[1] = "create"
        /\ \A i, j \in DOMAIN log : i < j =>
              /\ Phase(log[i]) <= Phase(log[j])
              /\ Phase(log[i]) = Phase(log[j]) => log[i] \in PollCalls
        /\ "iplist" \in Range(log) => Count(log, "get") = powerN + 1
        /\ Range(log) \cap {"forget", "ssh_echo"} # {} =>
              /\ "iplist" \in Range(log)
              /\ instance_ip \in Addresses
        /\ "scp_to_r" \in Range(log) => "ssh_mkdir" \in Range(log)
        /\ Range(log) \cap {"ssh_mkdir", "ssh_setup"} # {} =>
              "ssh_echo" \in Range(log)
        /\ "tunnel" \in Range(log) => "ssh_setup" \in Range(log)
        /\ pc = "upload_work_dir" => LastCall("ssh_echo") /\ last_ok
        /\ LastCall("ssh_echo") /\ ~last_ok => pc = "wait_for_ssh" \/ Killed

C18_Witness ==
    /\ cmd = "start"
    /\ pc = "in_tunnel"
    /\ log = <<"create", "get", "get", "iplist", "iplist", "forget",
               "ssh_echo", "ssh_echo", "ssh_mkdir", "scp_to_r", "ssh_setup",
               "tunnel">>
    /\ {"iplist", "ssh_echo"} \subseteq failed

\* C19: teardown step order. In a stop run with a record present the
\* provider stop call comes right before the provider delete call, the
\* delete call is issued also when the stop call failed, and the record is
\* still as found at every point before both were attempted: it is deleted
\* only after the delete call.
C19_TeardownOrder ==
    (cmd = "stop" /\ entryState # {}) =>
        /\ STATE_FILE \in {entryState, {}}
        /\ STATE_FILE = {} => LastCall("delete") /\ pc = "idle"
        /\ \A i \in DOMAIN log : log[i] = "delete" =>
              i > 1 /\ log[i-1] = "stop"
        /\ Count(log, "stop") <= 1
        /\ Count(log, "delete") <= 1
        /\ LastCall("stop") => pc = "delete_instance" \/ Killed
        /\ (pc = "idle" /\ ~Killed) => LastCall("delete")

C19_Witness ==
    /\ cmd = "stop"
    /\ entryState # {}
    /\ "stop" \in failed
    /\ LastCall("delete")
    /\ STATE_FILE = {}
    /\ pc = "idle"
    /\ exit = 0

\* C20: provisioning liveness. With the process left running (weak fairness
\* of its steps) and an environment in which create succeeds, the provider
\* answers the power-state queries with a state, the polls get their
\* not-ready answers and then a ready one, and the setup script exits zero,
\* every start begun with no record reaches the tunnel session with the
\* record saved; no poll gives up before.
C20_ProvisioningLiveness ==
    (cmd = "start" /\ pc = "start" /\ STATE_FILE = {})
        ~> (pc = "in_tunnel" /\ RecordOfRun /\ instance_id \in live)

C20_Witness ==
    /\ cmd = "start"
    /\ pc = "in_tunnel"
    /\ RecordOfRun
    /\ powerN = MaxPoll
    /\ Count(log, "iplist") = MaxPoll + 1
    /\ Count(log, "ssh_echo") = MaxPoll + 1
    /\ {"iplist", "ssh_echo", "scp_to_r"} \subseteq failed

Next ==
    \/ main
    \/ start
    \/ start_create
    \/ wait_for_running
    \/ wait_for_ip
    \/ start_remove_from_known_hosts
    \/ start_save_state
    \/ wait_for_ssh
    \/ upload_work_dir
    \/ upload_work_dir_scp
    \/ start_setup
    \/ start_ssh_tunnel
    \/ tunnel_closed
    \/ stop
    \/ download_work_dir
    \/ download_work_dir_scp
    \/ stop_remove_from_known_hosts
    \/ stop_instance
    \/ delete_instance
    \/ stop_delete_state
    \/ upload
    \/ upload_mkdir
    \/ upload_scp
    \/ download
    \/ download_test
    \/ download_scp
    \/ KeyboardInterrupt

Spec == Init /\ [][Next]_vars

\* A start run about to execute the setup script (a state Spec reaches),
\* from where the script prints any output of the bounded set.
TokenInit ==
    /\ pc = "setup"
    /\ cmd = "start"
    /\ exit = 0
    /\ STATE_FILE = save_state(1, 1)
    /\ entryState = {}
    /\ log = <<"create", "get", "iplist", "ssh_echo">>
    /\ live = {1}
    /\ nextId = 1
    /\ instance_id = 1
    /\ instance_ip = 1
    /\ is_dir = FALSE
    /\ powerN = 0
    /\ failed = {}
    /\ last_ok = TRUE
    /\ stdout = <<>>
    /\ token = <<>>

TokenNext ==
    \/ start_setup_outputs
    \/ start_ssh_tunnel
    \/ tunnel_closed

TokenSpec == TokenInit /\ [][TokenNext]_vars

\* The environment of an undisturbed provisioning: only start is invoked,
\* nobody kills the process, create and the setup script succeed, and every
\* power-state query is answered with a state.
Undisturbed ==
    /\ cmd = "start"
    /\ ~Killed
    /\ {"create", "ssh_setup"} \cap failed = {}
    /\ ~(pc = "idle" /\ LastCall("get"))

\* The steps of start, each in that environment.
LiveNext ==
    \/ main /\ Undisturbed'
    \/ start /\ Undisturbed'
    \/ start_create /\ Undisturbed'
    \/ wait_for_running /\ Undisturbed'
    \/ wait_for_ip /\ Undisturbed'
    \/ start_remove_from_known_hosts /\ Undisturbed'
    \/ start_save_state /\ Undisturbed'
    \/ wait_for_ssh /\ Undisturbed'
    \/ upload_work_dir /\ Undisturbed'
    \/ upload_work_dir_scp /\ Undisturbed'
    \/ start_setup /\ Undisturbed'
    \/ start_ssh_tunnel /\ Undisturbed'
    \/ tunnel_closed /\ Undisturbed'

\* The process runs on: a step that can be taken is taken.
LiveSpec == Init /\ [][LiveNext]_vars /\ WF_vars(LiveNext)

====
